---- MODULE Spec2Model ----
(***************************************************************************)
(* ATTinyDaemon firmware: the measurement cycle (read_voltages), the       *)
(* button interrupt handler ISR(PCINT0_vect), the register bus and the     *)
(* power state machine, as one state machine over the firmware's globals.  *)
(*                                                                         *)
(* The main loop is one process whose position is pc; the two interrupt    *)
(* sources (button edge, bus transaction) are actions that may fire at     *)
(* every position of the main loop except inside ATOMIC_BLOCK, which is    *)
(* therefore a single step.                                                *)
(*                                                                         *)
(* read_adc, the calibration arithmetic of read_voltages and the register  *)
(* interface are examined on their own, in specifications of their own     *)
(* (SpecAdc, SpecCal, SpecBus); SpecSweep and SpecHold run the main loop   *)
(* on scripted battery samples.                                            *)
(***************************************************************************)
EXTENDS Integers, Sequences, FiniteSets, TLC

VARIABLES
    pc,                 \* position of the main loop
    state,              \* State state
    should_shutdown,    \* uint8_t should_shutdown (cause bitmask)
    primed,             \* uint8_t primed
    seconds,            \* uint16_t seconds
    timeout,            \* uint8_t timeout
    bat_voltage,        \* uint16_t bat_voltage  (published)
    ext_voltage,        \* uint16_t ext_voltage  (published)
    temperature,        \* uint16_t temperature  (published)
    temp_bat_voltage,   \* uint32_t local of read_voltages
    temp_ext_voltage,   \* uint32_t local of read_voltages
    temp_temperature,   \* uint32_t local of read_voltages
    branch,             \* which arm of the if at line 102 was taken
    reg,                \* CPU register holding should_shutdown during |= / &=
    cycles,             \* number of measurement cycles started since boot
    fresh,              \* which published measurements stem from the running cycle
    bit_fresh,          \* the low-battery bit was written back in the running cycle
    seen,               \* <<fresh, bit_fresh>> as the last bus read of the cycle saw them
    btn_cycle,          \* the handler set the button bit during the running cycle
    sweep,              \* "off", or the kind or phase of a scripted run
    start,              \* first sample of a scripted sweep (0 when off)
    hist,               \* distinct power states visited during a sweep
    prev,               \* the state the last evaluation started from
    adc,                \* read_adc: its argument and locals while it runs alone
    cal,                \* the calibration of lines 69-88 applied to one input
    bus                 \* the answer to the last register transaction

vars == <<pc, state, should_shutdown, primed, seconds, timeout, bat_voltage,
          ext_voltage, temperature, temp_bat_voltage, temp_ext_voltage,
          temp_temperature, branch, reg, cycles, fresh, bit_fresh, seen,
          btn_cycle, sweep, start, hist, prev, adc, cal, bus>>

(***************************************************************************)
(* Bounds of the model.                                                    *)
(***************************************************************************)
MaxCycles == 4          \* measurement cycles per run with free inputs
MaxSweepCycles == 40    \* measurement cycles per run of a scripted sweep
MaxSeconds == 3         \* seconds saturates here
MaxMeasurements == 5    \* largest num_measurements given to read_adc
MaxHoldCycles == 85     \* measurement cycles per run with one constant sample
SettleCycles == 80      \* cycles after which a constant sample has settled
MaxBootCycles == 2      \* measurement cycles per run with register traffic

(***************************************************************************)
(* Program constants.                                                      *)
(***************************************************************************)
SL_INITIATED == 2       \* Shutdown_Cause::rpi_initiated = bit(1)
SL_BUTTON == 8          \* Shutdown_Cause::button        = bit(3)
SL_BAT_V == 128         \* Shutdown_Cause::bat_voltage   = bit(7)
SL_NONE == 0            \* Shutdown_Cause::none
CauseBits == {1, 2, 4, 8, 16, 32, 64, 128}   \* bit(0) .. bit(7) of Shutdown_Cause

restart_voltage == 3900
warn_voltage == 3400
shutdown_voltage == 3200

TwoTo16 == 2^16          \* uint16_t wraps here (int is 16 bits wide on AVR)

(***************************************************************************)
(* Inputs.                                                                 *)
(***************************************************************************)
BatSamples == {3100, 3500, 4000}    \* calibrated battery measurements (mV)
ExtSamples == {4900, 5100}          \* calibrated external measurements (mV)
TempSamples == {25}                 \* calibrated temperature
TimeoutValues == {1, 60}            \* timeout as loaded from EEPROM
SweepStarts == {3500, 4000}         \* first sample of a sweep
SweepSample == [down |-> 3100, up |-> 4300]  \* sample per sweep direction
HoldSamples == {3100, 5000, 8000}   \* the constant sample of a hold run
HoldPrevious == {2000, 3500, 7000, 8000}    \* bat_voltage when a hold run starts

(***************************************************************************)
(* Bit operations on uint8_t.                                              *)
(***************************************************************************)
HasBit(x, b) == (x \div b) % 2 = 1
SetBit(x, b) == IF HasBit(x, b) THEN x ELSE x + b
ClearBit(x, b) == IF HasBit(x, b) THEN x - b ELSE x

(***************************************************************************)
(* State: the enumerators of enum class State.                             *)
(***************************************************************************)
running_state == "running_state"
unclear_state == "unclear_state"
warn_to_running == "warn_to_running"
shutdown_to_running == "shutdown_to_running"
warn_state == "warn_state"
warn_to_shutdown == "warn_to_shutdown"
shutdown_state == "shutdown_state"

State == {running_state, unclear_state, warn_to_running, shutdown_to_running,
          warn_state, warn_to_shutdown, shutdown_state}

InitStateRunning == running_state
InitState == unclear_state

ghosts == <<cycles, fresh, bit_fresh, seen, btn_cycle, sweep, start, hist,
            prev>>

\* The parts below that run on their own are idle while the firmware runs.
idle == "idle"

aux == <<adc, cal, bus>>

Init ==
    /\ pc = "measure"
    /\ state = InitState
    /\ should_shutdown = SL_NONE
    /\ primed = 0
    /\ seconds = 0
    /\ timeout \in TimeoutValues
    /\ bat_voltage = 0
    /\ ext_voltage = 0
    /\ temperature = 0
    /\ temp_bat_voltage = 0
    /\ temp_ext_voltage = 0
    /\ temp_temperature = 0
    /\ branch = "none"
    /\ reg = 0
    /\ cycles = 0
    /\ fresh = {}
    /\ bit_fresh = FALSE
    /\ seen = <<{}, FALSE>>
    /\ btn_cycle = FALSE
    /\ sweep = "off"
    /\ start = 0
    /\ hist = <<>>
    /\ prev = "none"
    /\ adc = idle
    /\ cal = idle
    /\ bus = idle

(***************************************************************************)
(* read_voltages, lines 47-92: the three conversions and their             *)
(* calibration. The calibrated results are the inputs of the cycle.        *)
(***************************************************************************)
BatInput ==
    IF sweep \in {"off", "boot"} THEN BatSamples
    ELSE IF sweep = "hold" \/ cycles = 0 THEN {start}
    ELSE {SweepSample[sweep]}

CycleLimit ==
    IF sweep = "off" THEN MaxCycles
    ELSE IF sweep = "hold" THEN MaxHoldCycles
    ELSE IF sweep = "boot" THEN MaxBootCycles
    ELSE MaxSweepCycles

read_voltages_measure ==
    /\ pc = "measure"
    /\ cycles < CycleLimit
    /\ \E b \in BatInput, e \in ExtSamples, t \in TempSamples :
          /\ temp_bat_voltage' = b
          /\ temp_ext_voltage' = e
          /\ temp_temperature' = t
    /\ cycles' = cycles + 1
    /\ fresh' = {}
    /\ bit_fresh' = FALSE
    /\ btn_cycle' = FALSE
    /\ seen' = <<{}, FALSE>>
    /\ pc' = "smooth"
    /\ UNCHANGED aux
    /\ UNCHANGED <<state, should_shutdown, primed, seconds, timeout, bat_voltage,
                   ext_voltage, temperature, branch, reg, sweep, start, hist,
                   prev>>

(***************************************************************************)
(* Line 98: temp_bat_voltage = (temp_bat_voltage + bat_voltage * 9) / 10.  *)
(* bat_voltage * 9 is a 16 bit unsigned product (uint16_t times int on a    *)
(* 16 bit target); the sum is 32 bit and cannot wrap, because the          *)
(* calibrated temp_bat_voltage is below 2^32 / 1000 + 2^15.                *)
(***************************************************************************)
SmoothSwapped(t, b) == (((t * 9) % TwoTo16) + b) \div 10

Smooth(t, b) == (t + ((b * 9) % TwoTo16)) \div 10

SmoothSkipsCheck ==
    /\ pc = "smooth"
    /\ temp_bat_voltage' = IF bat_voltage # 0
                               THEN Smooth(temp_bat_voltage, bat_voltage)
                               ELSE temp_bat_voltage
    /\ pc' = "publish"
    /\ UNCHANGED aux
    /\ UNCHANGED <<state, should_shutdown, primed, seconds, timeout, bat_voltage,
                   ext_voltage, temperature, temp_ext_voltage, temp_temperature,
                   branch, reg, ghosts>>

read_voltages_smooth ==
    /\ pc = "smooth"
    /\ IF bat_voltage # 0
          THEN /\ temp_bat_voltage' = Smooth(temp_bat_voltage, bat_voltage)
               /\ pc' = "test"
          ELSE /\ temp_bat_voltage' = temp_bat_voltage
               /\ pc' = "publish"
    /\ UNCHANGED aux
    /\ UNCHANGED <<state, should_shutdown, primed, seconds, timeout, bat_voltage,
                   ext_voltage, temperature, temp_ext_voltage, temp_temperature,
                   branch, reg, ghosts>>

(***************************************************************************)
(* Line 102: warn_voltage > temp_bat_voltage &&                            *)
(*           should_shutdown != SL_INITIATED                               *)
(***************************************************************************)
LowBattery(t, ss) == warn_voltage > t /\ ss # SL_INITIATED

read_voltages_test ==
    /\ pc = "test"
    /\ branch' = IF LowBattery(temp_bat_voltage, should_shutdown)
                    THEN "set" ELSE "clear"
    /\ pc' = "load"
    /\ UNCHANGED aux
    /\ UNCHANGED <<state, should_shutdown, primed, seconds, timeout, bat_voltage,
                   ext_voltage, temperature, temp_bat_voltage, temp_ext_voltage,
                   temp_temperature, reg, ghosts>>

(***************************************************************************)
(* Lines 103 and 105: should_shutdown |= SL_BAT_V and                      *)
(* should_shutdown &= ~SL_BAT_V. should_shutdown lives in SRAM, so each    *)
(* is a load, an operation on the register and a store; interrupts are     *)
(* enabled in between.                                                     *)
(***************************************************************************)
read_voltages_load ==
    /\ pc = "load"
    /\ reg' = should_shutdown
    /\ pc' = "store"
    /\ UNCHANGED aux
    /\ UNCHANGED <<state, should_shutdown, primed, seconds, timeout, bat_voltage,
                   ext_voltage, temperature, temp_bat_voltage, temp_ext_voltage,
                   temp_temperature, branch, ghosts>>

StoreNeverClears ==
    /\ pc = "store"
    /\ should_shutdown' = IF branch = "set" THEN SetBit(reg, SL_BAT_V) ELSE reg
    /\ bit_fresh' = TRUE
    /\ pc' = "publish"
    /\ UNCHANGED aux
    /\ UNCHANGED <<state, primed, seconds, timeout, bat_voltage, ext_voltage,
                   temperature, temp_bat_voltage, temp_ext_voltage,
                   temp_temperature, branch, reg, cycles, fresh, seen,
                   btn_cycle, sweep, start, hist, prev>>

StoreAssigns ==
    /\ pc = "store"
    /\ should_shutdown' = IF branch = "set" THEN SL_BAT_V ELSE SL_NONE
    /\ bit_fresh' = TRUE
    /\ pc' = "publish"
    /\ UNCHANGED aux
    /\ UNCHANGED <<state, primed, seconds, timeout, bat_voltage, ext_voltage,
                   temperature, temp_bat_voltage, temp_ext_voltage,
                   temp_temperature, branch, reg, cycles, fresh, seen,
                   btn_cycle, sweep, start, hist, prev>>

read_voltages_store ==
    /\ pc = "store"
    /\ should_shutdown' = IF branch = "set" THEN SetBit(reg, SL_BAT_V)
                                            ELSE ClearBit(reg, SL_BAT_V)
    /\ bit_fresh' = TRUE
    /\ pc' = "publish"
    /\ UNCHANGED aux
    /\ UNCHANGED <<state, primed, seconds, timeout, bat_voltage, ext_voltage,
                   temperature, temp_bat_voltage, temp_ext_voltage,
                   temp_temperature, branch, reg, cycles, fresh, seen,
                   btn_cycle, sweep, start, hist, prev>>

(***************************************************************************)
(* Lines 111-115: ATOMIC_BLOCK(ATOMIC_RESTORESTATE), one step.             *)
(***************************************************************************)
PublishTorn ==
    /\ pc = "publish"
    /\ bat_voltage' = temp_bat_voltage % TwoTo16
    /\ fresh' = fresh \cup {"bat"}
    /\ pc' = "publish_rest"
    /\ UNCHANGED aux
    /\ UNCHANGED <<state, should_shutdown, primed, seconds, timeout, ext_voltage,
                   temperature, temp_bat_voltage, temp_ext_voltage,
                   temp_temperature, branch, reg, cycles, bit_fresh, seen,
                   btn_cycle, sweep, start, hist, prev>>

read_voltages_publish ==
    /\ pc = "publish"
    /\ bat_voltage' = temp_bat_voltage % TwoTo16
    /\ ext_voltage' = temp_ext_voltage % TwoTo16
    /\ temperature' = temp_temperature % TwoTo16
    /\ fresh' = {"bat", "ext", "temp"}
    /\ pc' = "eval"
    /\ UNCHANGED aux
    /\ UNCHANGED <<state, should_shutdown, primed, seconds, timeout,
                   temp_bat_voltage, temp_ext_voltage, temp_temperature,
                   branch, reg, cycles, bit_fresh, seen, btn_cycle, sweep,
                   start, hist, prev>>

(***************************************************************************)
(* The power state machine, one evaluation per wake cycle.                 *)
(***************************************************************************)
NextStateNoHysteresis(s, bat, ss) ==
    CASE s = unclear_state ->
            IF bat <= warn_voltage THEN warn_state ELSE running_state
      [] s = running_state ->
            IF ss # SL_NONE \/ bat <= warn_voltage THEN warn_state ELSE running_state
      [] s = warn_state ->
            IF bat <= shutdown_voltage THEN warn_to_shutdown
            ELSE IF bat > warn_voltage /\ ss = SL_NONE THEN warn_to_running
            ELSE warn_state
      [] s = warn_to_shutdown -> shutdown_state
      [] s = shutdown_state ->
            IF bat > warn_voltage THEN shutdown_to_running ELSE shutdown_state
      [] s = warn_to_running -> running_state
      [] s = shutdown_to_running -> running_state

NextState(s, bat, ss) ==
    CASE s = unclear_state ->
            IF bat <= warn_voltage THEN warn_state ELSE running_state
      [] s = running_state ->
            IF ss # SL_NONE \/ bat <= warn_voltage THEN warn_state ELSE running_state
      [] s = warn_state ->
            IF bat <= shutdown_voltage THEN warn_to_shutdown
            ELSE IF bat >= restart_voltage /\ ss = SL_NONE THEN warn_to_running
            ELSE warn_state
      [] s = warn_to_shutdown -> shutdown_state
      [] s = shutdown_state ->
            IF bat >= restart_voltage THEN shutdown_to_running ELSE shutdown_state
      [] s = warn_to_running -> running_state
      [] s = shutdown_to_running -> running_state

handle_state ==
    /\ pc = "eval"
    /\ state' = NextState(state, bat_voltage, should_shutdown)
    /\ hist' = IF sweep # "off" /\ state' # state THEN Append(hist, state') ELSE hist
    /\ prev' = state
    /\ pc' = "sleep"
    /\ UNCHANGED aux
    /\ UNCHANGED <<should_shutdown, primed, seconds, timeout, bat_voltage,
                   ext_voltage, temperature, temp_bat_voltage, temp_ext_voltage,
                   temp_temperature, branch, reg, cycles, fresh, bit_fresh,
                   seen, btn_cycle, sweep, start>>

(***************************************************************************)
(* handle_sleep: the wake cycle ends; seconds advances once per cycle.     *)
(***************************************************************************)
handle_sleep ==
    /\ pc = "sleep"
    /\ seconds' = IF seconds < MaxSeconds THEN seconds + 1 ELSE seconds
    /\ pc' = "measure"
    /\ UNCHANGED aux
    /\ UNCHANGED <<state, should_shutdown, primed, timeout, bat_voltage,
                   ext_voltage, temperature, temp_bat_voltage, temp_ext_voltage,
                   temp_temperature, branch, reg, ghosts>>

(***************************************************************************)
(* ISR(PCINT0_vect): the button edge. It runs with interrupts disabled,    *)
(* so it is one step, and it may fire at every position of the main loop.  *)
(***************************************************************************)
InCycle == pc \in {"smooth", "test", "load", "store", "publish"}

ISR_PrimesAlways ==
    /\ primed' = 1
    /\ should_shutdown' = IF seconds > timeout THEN SL_NONE ELSE should_shutdown
    /\ btn_cycle' = FALSE
    /\ UNCHANGED aux
    /\ UNCHANGED <<pc, state, seconds, timeout, bat_voltage, ext_voltage,
                   temperature, temp_bat_voltage, temp_ext_voltage,
                   temp_temperature, branch, reg, cycles, fresh, bit_fresh,
                   seen, sweep, start, hist, prev>>

ISR_PrimesWhenSilent ==
    /\ IF seconds > timeout
          THEN /\ primed' = 1
               /\ should_shutdown' = SL_NONE
               /\ btn_cycle' = FALSE
          ELSE /\ primed' = primed
               /\ IF should_shutdown # SL_INITIATED
                     THEN /\ should_shutdown' = SetBit(should_shutdown, SL_BUTTON)
                          /\ btn_cycle' = (btn_cycle \/ InCycle)
                     ELSE /\ should_shutdown' = should_shutdown
                          /\ btn_cycle' = btn_cycle
    /\ UNCHANGED aux
    /\ UNCHANGED <<pc, state, seconds, timeout, bat_voltage, ext_voltage,
                   temperature, temp_bat_voltage, temp_ext_voltage,
                   temp_temperature, branch, reg, cycles, fresh, bit_fresh,
                   seen, sweep, start, hist, prev>>

ISR_PCINT0 ==
    /\ IF seconds > timeout /\ primed = 0
          THEN /\ primed' = 1
               /\ should_shutdown' = SL_NONE
               /\ btn_cycle' = FALSE
          ELSE /\ primed' = primed
               /\ IF should_shutdown # SL_INITIATED
                     THEN /\ should_shutdown' = SetBit(should_shutdown, SL_BUTTON)
                          /\ btn_cycle' = (btn_cycle \/ InCycle)
                     ELSE /\ should_shutdown' = should_shutdown
                          /\ btn_cycle' = btn_cycle
    /\ UNCHANGED aux
    /\ UNCHANGED <<pc, state, seconds, timeout, bat_voltage, ext_voltage,
                   temperature, temp_bat_voltage, temp_ext_voltage,
                   temp_temperature, branch, reg, cycles, fresh, bit_fresh,
                   seen, sweep, start, hist, prev>>

(***************************************************************************)
(* The register bus. A transaction is served in an interrupt, at any       *)
(* position of the main loop, and resets seconds (reset_counter).          *)
(***************************************************************************)
ResetCounterKeeps == seconds' = seconds

reset_counter == seconds' = 0

HostRead ==
    /\ reset_counter
    /\ seen' = <<fresh, bit_fresh>>
    /\ UNCHANGED aux
    /\ UNCHANGED <<pc, state, should_shutdown, primed, timeout, bat_voltage,
                   ext_voltage, temperature, temp_bat_voltage, temp_ext_voltage,
                   temp_temperature, branch, reg, cycles, fresh, bit_fresh,
                   btn_cycle, sweep, start, hist, prev>>

HostInitiated ==
    /\ reset_counter
    /\ should_shutdown' = SetBit(should_shutdown, SL_INITIATED)
    /\ UNCHANGED aux
    /\ UNCHANGED <<pc, state, primed, timeout, bat_voltage, ext_voltage,
                   temperature, temp_bat_voltage, temp_ext_voltage,
                   temp_temperature, branch, reg, ghosts>>

(***************************************************************************)
(* The battery turns from discharging to charging once its voltage has     *)
(* fallen to shutdown_voltage.                                             *)
(***************************************************************************)
TurnSweep ==
    /\ sweep = "down"
    /\ pc = "measure"
    /\ cycles > 0
    /\ bat_voltage <= shutdown_voltage
    /\ sweep' = "up"
    /\ UNCHANGED aux
    /\ UNCHANGED <<pc, state, should_shutdown, primed, seconds, timeout,
                   bat_voltage, ext_voltage, temperature, temp_bat_voltage,
                   temp_ext_voltage, temp_temperature, branch, reg, cycles,
                   fresh, bit_fresh, seen, btn_cycle, start, hist, prev>>

MainLoop ==
    \/ read_voltages_measure
    \/ read_voltages_smooth
    \/ read_voltages_test
    \/ read_voltages_load
    \/ read_voltages_store
    \/ read_voltages_publish
    \/ handle_state
    \/ handle_sleep

Next ==
    \/ MainLoop
    \/ ISR_PCINT0
    \/ HostRead
    \/ HostInitiated

Spec == Init /\ [][Next]_vars

(***************************************************************************)
(* The sweep: no button, no bus traffic; the battery discharges from a     *)
(* first sample and then recharges.                                        *)
(***************************************************************************)
InitSweep ==
    /\ pc = "measure"
    /\ state = InitState
    /\ should_shutdown = SL_NONE
    /\ primed = 0
    /\ seconds = 0
    /\ timeout \in TimeoutValues
    /\ bat_voltage = 0
    /\ ext_voltage = 0
    /\ temperature = 0
    /\ temp_bat_voltage = 0
    /\ temp_ext_voltage = 0
    /\ temp_temperature = 0
    /\ branch = "none"
    /\ reg = 0
    /\ cycles = 0
    /\ fresh = {}
    /\ bit_fresh = FALSE
    /\ seen = <<{}, FALSE>>
    /\ btn_cycle = FALSE
    /\ sweep = "down"
    /\ start \in SweepStarts
    /\ hist = <<>>
    /\ prev = "none"
    /\ adc = idle
    /\ cal = idle
    /\ bus = idle

NextSweep ==
    \/ MainLoop
    \/ TurnSweep

SpecSweep == InitSweep /\ [][NextSweep]_vars

(***************************************************************************)
(* Properties.                                                             *)
(***************************************************************************)
Triple == {"bat", "ext", "temp"}

\* C1: at every point where a bus read can occur, and in every bus read
\* that did occur, bat_voltage, ext_voltage and temperature are all from
\* the previous cycle or all from the running cycle.
C1_TripleConsistent ==
    /\ fresh \in {{}, Triple}
    /\ seen[1] \in {{}, Triple}

\* A bus read was served in the middle of a later cycle, after the
\* write-back of the low-battery bit and before the atomic block.
C1_Witness ==
    /\ pc = "publish"
    /\ cycles >= 2
    /\ seen = <<{}, TRUE>>

\* C2 (as specified): no bus read observes the low-battery bit already
\* written back from the new sample while bat_voltage is the previous
\* cycle's value.
C2_BitWithTriple == ~(seen[2] /\ "bat" \notin seen[1])

\* C2 (amended): the low-battery bit is written back before the atomic
\* block, not in it. The new bit is visible together with the previous
\* bat_voltage exactly between the write-back and the atomic block of a
\* non-initial cycle, and at no other position.
C2_MixOnlyBeforePublish ==
    /\ (bit_fresh /\ "bat" \notin fresh) => pc = "publish"
    /\ (pc = "publish" /\ bat_voltage # 0) => (bit_fresh /\ fresh = {})

\* The window: the bit of the second cycle is written back, set, and the
\* published battery voltage is still the first cycle's.
C2_Witness ==
    /\ pc = "publish"
    /\ bit_fresh
    /\ HasBit(should_shutdown, SL_BAT_V)
    /\ bat_voltage # temp_bat_voltage % TwoTo16
    /\ fresh = {}

\* C3: a button bit that the handler set during a measurement cycle is
\* still set in should_shutdown when the cycle completes.
C3_ButtonBitKept ==
    (pc = "eval" /\ btn_cycle) => HasBit(should_shutdown, SL_BUTTON)

\* C8: the handler, run with seconds > timeout and primed = 0, sets primed
\* to 1 and should_shutdown to none; run in any other situation it leaves
\* primed as it is.
C8_Priming ==
    [][ISR_PCINT0 =>
          IF seconds > timeout /\ primed = 0
             THEN primed' = 1 /\ should_shutdown' = SL_NONE
             ELSE primed' = primed]_vars

\* The priming branch ran and wiped a cause that had been recorded.
C8_Witness ==
    /\ primed = 1
    /\ should_shutdown = SL_NONE
    /\ seconds > timeout
    /\ bit_fresh

\* C9: in the non-priming branch the handler sets the button bit if and
\* only if the host-initiated bit is not set in should_shutdown; with the
\* host-initiated bit set, alone or with other bits, should_shutdown is
\* left unchanged.
C9_ButtonIffNotInitiated ==
    [][(ISR_PCINT0 /\ ~(seconds > timeout /\ primed = 0)) =>
          should_shutdown' = IF HasBit(should_shutdown, SL_INITIATED)
                                THEN should_shutdown
                                ELSE SetBit(should_shutdown, SL_BUTTON)]_vars

\* C10: on a non-initial cycle the low-battery bit is set if and only if
\* the smoothed battery voltage is below warn_voltage and the
\* host-initiated bit is not set in should_shutdown; otherwise it is
\* cleared.
C10_LowBatteryIff ==
    [][/\ read_voltages_test =>
            ((branch' = "set") <=>
                (warn_voltage > temp_bat_voltage
                 /\ ~HasBit(should_shutdown, SL_INITIATED)))
       /\ read_voltages_store =>
            (HasBit(should_shutdown', SL_BAT_V) <=> branch = "set")]_vars

\* The states of a full discharge and recharge, in order.
SweepSequence ==
    <<running_state, warn_state, warn_to_shutdown, shutdown_state,
      shutdown_to_running, running_state>>

IsPrefix(a, b) == Len(a) <= Len(b) /\ SubSeq(b, 1, Len(a)) = a

\* C4: with shutdown_voltage < warn_voltage < restart_voltage and no cause
\* raised from outside, a battery voltage that falls across the thresholds
\* and then rises across them takes the power state through Running, Warn,
\* WarnToShutdown, Shutdown, ShutdownToRunning, Running in this order: at
\* every point of the sweep the distinct states visited are a prefix of it.
C4_SweepOrder ==
    /\ shutdown_voltage < warn_voltage
    /\ warn_voltage < restart_voltage
    /\ IsPrefix(hist, SweepSequence)

\* The sweep from above restart_voltage is complete.
C4_Witness ==
    /\ start > restart_voltage
    /\ sweep = "up"
    /\ bat_voltage > restart_voltage
    /\ hist = SweepSequence

Recovering == {running_state, warn_to_running, shutdown_to_running}

\* C5: from Warn or Shutdown no step leads to Running, WarnToRunning or
\* ShutdownToRunning while bat_voltage < restart_voltage; from Warn none
\* does while a cause bit is set; and Warn with bat_voltage strictly
\* between warn_voltage and restart_voltage stays Warn.
C5_Hysteresis ==
    [][/\ (state \in {warn_state, shutdown_state}
           /\ bat_voltage < restart_voltage) => state' \notin Recovering
       /\ (state = warn_state /\ should_shutdown # SL_NONE)
              => state' \notin Recovering
       /\ (state = warn_state /\ warn_voltage < bat_voltage
           /\ bat_voltage < restart_voltage) => state' = warn_state]_vars

\* An evaluation started in Warn with the battery between warn_voltage and
\* restart_voltage, and ended in Warn.
C5_Witness ==
    /\ pc = "sleep"
    /\ prev = warn_state
    /\ state = warn_state
    /\ warn_voltage < bat_voltage
    /\ bat_voltage < restart_voltage

Breached == bat_voltage <= warn_voltage \/ bat_voltage <= shutdown_voltage

\* C6: the state is Unclear after reset; the first evaluation replaces it
\* by Warn if a threshold is breached and by Running otherwise; no step
\* leads back to Unclear.
C6_Unclear ==
    /\ state = unclear_state
    /\ [][/\ (handle_state /\ state = unclear_state)
                => state' = IF Breached THEN warn_state ELSE running_state
          /\ (state = unclear_state /\ state' # state) => handle_state
          /\ state # unclear_state => state' # unclear_state]_vars

\* The first evaluation found the battery at or below warn_voltage.
C6_Witness ==
    /\ pc = "sleep"
    /\ cycles = 1
    /\ prev = unclear_state
    /\ state = warn_state
    /\ Breached

\* C7 (as specified): after booting with the defaults, a first cycle that
\* measures 3500 gives Running with no cause bit, and the next cycle, which
\* measures 3100, sets the low-battery bit and gives Warn.
C7_Scenario ==
    (start = 3500 /\ pc = "sleep") =>
        /\ cycles = 1 => (state = running_state /\ should_shutdown = SL_NONE)
        /\ cycles = 2 => (state = warn_state /\ HasBit(should_shutdown, SL_BAT_V))

\* C7 (amended): the cycle that measures 3100 after 3500 publishes the
\* smoothed 3460, which is not below warn_voltage: the low-battery bit stays
\* clear and the state Running in cycles 2 and 3. The bit is set and the
\* state becomes Warn in cycle 4 (smoothed 3391), WarnToShutdown in cycle
\* 14 (smoothed 3199) and Shutdown in cycle 15.
C7_ScenarioSmoothed ==
    (start = 3500 /\ pc = "sleep") =>
        /\ cycles = 1 => (/\ bat_voltage = 3500
                          /\ state = running_state
                          /\ should_shutdown = SL_NONE)
        /\ cycles = 2 => (/\ bat_voltage = 3460
                          /\ state = running_state
                          /\ should_shutdown = SL_NONE)
        /\ cycles = 3 => (state = running_state /\ should_shutdown = SL_NONE)
        /\ cycles = 4 => (/\ bat_voltage = 3391
                          /\ prev = running_state
                          /\ state = warn_state
                          /\ should_shutdown = SL_BAT_V)
        /\ cycles \in 5..13 => (state = warn_state /\ should_shutdown = SL_BAT_V)
        /\ cycles = 14 => (bat_voltage = 3199 /\ state = warn_to_shutdown)
        /\ cycles = 15 => state = shutdown_state

\* The scenario has run to Shutdown while the battery still discharges.
C7_Witness ==
    /\ start = 3500
    /\ sweep = "down"
    /\ pc = "sleep"
    /\ cycles = 15
    /\ state = shutdown_state
    /\ HasBit(should_shutdown, SL_BAT_V)


(***************************************************************************)
(* C11: if the power state is Running and the host is alive (seconds <=    *)
(* timeout), a button edge that sets the button cause bit makes the next   *)
(* evaluation of the state machine move the state to Warn, whatever the    *)
(* battery voltage is.                                                     *)
(* btn_cycle records such an edge during the running cycle: with primed =  *)
(* 0 the handler takes its second branch only if seconds <= timeout, and   *)
(* nothing between the edge and the evaluation changes state.              *)
(***************************************************************************)
C11_ButtonMovesToWarn ==
    [][(handle_state /\ state = running_state /\ btn_cycle /\ primed = 0)
          => state' = warn_state]_vars

(***************************************************************************)
(* C12: cause bits are independent when they are updated one after the     *)
(* other. The handler executing should_shutdown |= button leaves every     *)
(* other cause bit as it was, and the measurement cycle setting or         *)
(* clearing the low-battery bit, with no handler between its load and its  *)
(* store (reg = should_shutdown), leaves every other cause bit as it was.  *)
(***************************************************************************)
C12_CauseBitsIndependent ==
    [][/\ (/\ ISR_PCINT0
           /\ ~(seconds > timeout /\ primed = 0)
           /\ should_shutdown # SL_INITIATED)
          => /\ HasBit(should_shutdown', SL_BUTTON)
             /\ \A b \in CauseBits \ {SL_BUTTON} :
                   HasBit(should_shutdown', b) = HasBit(should_shutdown, b)
       /\ (read_voltages_store /\ reg = should_shutdown)
          => /\ HasBit(should_shutdown', SL_BAT_V) = (branch = "set")
             /\ \A b \in CauseBits \ {SL_BAT_V} :
                   HasBit(should_shutdown', b) = HasBit(should_shutdown, b)
      ]_vars

\* The handler set the button bit in an earlier cycle, and the running cycle
\* has set the low-battery bit next to it.
C12_Witness ==
    /\ pc = "publish"
    /\ bit_fresh
    /\ ~btn_cycle
    /\ HasBit(reg, SL_BUTTON)
    /\ ~HasBit(reg, SL_BAT_V)
    /\ should_shutdown = SetBit(reg, SL_BAT_V)

(***************************************************************************)
(* The firmware's globals as the definitions of ATTinyDaemon.ino leave     *)
(* them, with the main loop not running: the start of the parts that are   *)
(* examined on their own.                                                  *)
(***************************************************************************)
Globals ==
    /\ pc = idle
    /\ state = InitState
    /\ should_shutdown = SL_NONE
    /\ primed = 0
    /\ seconds = 0
    /\ timeout = 60
    /\ bat_voltage = 0
    /\ ext_voltage = 0
    /\ temperature = 0
    /\ temp_bat_voltage = 0
    /\ temp_ext_voltage = 0
    /\ temp_temperature = 0
    /\ branch = "none"
    /\ reg = 0
    /\ cycles = 0
    /\ fresh = {}
    /\ bit_fresh = FALSE
    /\ seen = <<{}, FALSE>>
    /\ btn_cycle = FALSE
    /\ sweep = "off"
    /\ start = 0
    /\ hist = <<>>
    /\ prev = "none"

main == <<pc, state, should_shutdown, primed, seconds, timeout, bat_voltage,
          ext_voltage, temperature, temp_bat_voltage, temp_ext_voltage,
          temp_temperature, branch, reg, ghosts>>

(***************************************************************************)
(* read_adc(num_measurements), lines 124-159. One step per conversion of   *)
(* the loop, one for the averaging after it. result, highest_val and       *)
(* lowest_val are uint16_t; raw keeps the conversions read so far.         *)
(***************************************************************************)
USHRT_MAX == TwoTo16 - 1

RawValues == {0, 1, 511, 1023}      \* 10 bit conversion results (ADCH:ADCL)

InitAdc ==
    /\ Globals
    /\ \E n \in 1..MaxMeasurements :
          adc = [pc |-> "loop", num_measurements |-> n, i |-> 0, result |-> 0,
                 highest_val |-> 0, lowest_val |-> USHRT_MAX, raw |-> <<>>,
                 ret |-> 0]
    /\ cal = idle
    /\ bus = idle

read_adc_convert ==
    /\ adc.pc = "loop"
    /\ adc.i < adc.num_measurements
    /\ \E current_val \in RawValues :
          adc' = [adc EXCEPT
                    !.result = (@ + current_val) % TwoTo16,
                    !.highest_val = IF current_val > @ THEN current_val ELSE @,
                    !.lowest_val = IF current_val < @ THEN current_val ELSE @,
                    !.raw = Append(@, current_val),
                    !.i = @ + 1]
    /\ UNCHANGED <<main, cal, bus>>

AverageKeepsExtremes ==
    /\ adc.pc = "loop"
    /\ adc.i = adc.num_measurements
    /\ adc' = [adc EXCEPT !.pc = "done",
                          !.ret = adc.result \div adc.num_measurements]
    /\ UNCHANGED <<main, cal, bus>>

read_adc_average ==
    /\ adc.pc = "loop"
    /\ adc.i = adc.num_measurements
    /\ LET result ==
              IF adc.num_measurements > 3
                 THEN ((adc.result - adc.highest_val - adc.lowest_val) % TwoTo16)
                          \div (adc.num_measurements - 2)
                 ELSE adc.result \div adc.num_measurements
       IN  adc' = [adc EXCEPT !.pc = "done", !.ret = result]
    /\ UNCHANGED <<main, cal, bus>>

NextAdc ==
    \/ read_adc_convert
    \/ read_adc_average

SpecAdc == InitAdc /\ [][NextAdc]_vars

RECURSIVE SeqSum(_)
SeqSum(s) == IF s = <<>> THEN 0 ELSE Head(s) + SeqSum(Tail(s))

SeqMax(s) == CHOOSE x \in {s[k] : k \in 1..Len(s)} :
                \A k \in 1..Len(s) : s[k] <= x

SeqMin(s) == CHOOSE x \in {s[k] : k \in 1..Len(s)} :
                \A k \in 1..Len(s) : s[k] >= x

(***************************************************************************)
(* C13: for every sequence of count raw conversions read_adc returns       *)
(* (sum - max - min) / (count - 2), integer division, when count > 3 and   *)
(* sum / count when count <= 3; one occurrence of the highest and one of   *)
(* the lowest reading is discarded, so equal samples return that sample.   *)
(***************************************************************************)
C13_TrimmedMean ==
    adc.pc = "done" =>
        LET count == Len(adc.raw)
        IN  /\ count = adc.num_measurements
            /\ adc.ret = IF count > 3
                            THEN (SeqSum(adc.raw) - SeqMax(adc.raw)
                                     - SeqMin(adc.raw)) \div (count - 2)
                            ELSE SeqSum(adc.raw) \div count
            /\ (\A k \in 1..count : adc.raw[k] = adc.raw[1])
                  => adc.ret = adc.raw[1]

\* More than three conversions, the highest reading twice among them.
C13_Witness ==
    /\ adc.pc = "done"
    /\ adc.num_measurements > 3
    /\ SeqMax(adc.raw) # SeqMin(adc.raw)
    /\ \E j, k \in 1..Len(adc.raw) :
          j # k /\ adc.raw[j] = SeqMax(adc.raw) /\ adc.raw[k] = SeqMax(adc.raw)
    /\ adc.ret # SeqSum(adc.raw) \div Len(adc.raw)

(***************************************************************************)
(* The hold: the firmware has been running, bat_voltage holds a previous   *)
(* value, and from now on every cycle measures the same sample (start).    *)
(* No button, no bus traffic.                                              *)
(***************************************************************************)
InitHold ==
    /\ pc = "measure"
    /\ bat_voltage \in HoldPrevious
    /\ state = IF bat_voltage > warn_voltage THEN running_state ELSE warn_state
    /\ should_shutdown = SL_NONE
    /\ primed = 0
    /\ seconds = 0
    /\ timeout \in TimeoutValues
    /\ ext_voltage = 0
    /\ temperature = 0
    /\ temp_bat_voltage = 0
    /\ temp_ext_voltage = 0
    /\ temp_temperature = 0
    /\ branch = "none"
    /\ reg = 0
    /\ cycles = 0
    /\ fresh = {}
    /\ bit_fresh = FALSE
    /\ seen = <<{}, FALSE>>
    /\ btn_cycle = FALSE
    /\ sweep = "hold"
    /\ start \in HoldSamples
    /\ hist = <<>>
    /\ prev = "none"
    /\ adc = idle
    /\ cal = idle
    /\ bus = idle

SpecHold == InitHold /\ [][MainLoop]_vars

Abs(x) == IF x < 0 THEN -x ELSE x

(***************************************************************************)
(* C14: with the same battery sample V on every cycle, starting from any   *)
(* nonzero previous battery value, the published smoothed battery voltage  *)
(* converges to V: after finitely many cycles (SettleCycles here) the      *)
(* cycle publishes the value it found, and that value differs from V by    *)
(* less than the divisor 10 of the integer division.                       *)
(***************************************************************************)
C14_Converges ==
    (sweep = "hold" /\ pc = "publish" /\ cycles > SettleCycles)
        => /\ temp_bat_voltage % TwoTo16 = bat_voltage
           /\ Abs(bat_voltage - start) < 10

(***************************************************************************)
(* C18: on a cycle whose previous published bat_voltage is nonzero the     *)
(* published battery voltage equals floor((new_bat_v + 9 * old_bat_v) /    *)
(* 10), for every nonzero old_bat_v; on a cycle whose previous bat_voltage *)
(* is 0 smoothing is skipped and the calibrated measurement itself is      *)
(* published. In a hold run the calibrated measurement is start.           *)
(***************************************************************************)
C18_SmoothingFormula ==
    [][(read_voltages_publish /\ sweep = "hold")
          => bat_voltage' = IF bat_voltage # 0
                               THEN (start + 9 * bat_voltage) \div 10
                               ELSE start]_vars

(***************************************************************************)
(* C19: after every measurement cycle, the first one after boot included,  *)
(* the low-battery cause bit reflects the battery voltage the cycle        *)
(* published: with no host-initiated shutdown recorded, the bit is set     *)
(* when the cycle completes if and only if the published battery voltage   *)
(* is below warn_voltage.                                                  *)
(***************************************************************************)
C19_BitReflectsVoltage ==
    [][(read_voltages_publish /\ ~HasBit(should_shutdown, SL_INITIATED))
          => (HasBit(should_shutdown', SL_BAT_V)
                 <=> bat_voltage' < warn_voltage)]_vars

(***************************************************************************)
(* uint32_t arithmetic. A uint32_t value is the pair <<high, low>> of its  *)
(* 16 bit halves; every operation is taken modulo 2^32, as the target      *)
(* does, and no intermediate value leaves 31 bits.                         *)
(***************************************************************************)
U32(n) == <<n \div TwoTo16, n % TwoTo16>>

\* a * c for a uint16_t c, as `a *= c` computes it
MulU32(a, c) ==
    LET cl == c % 256
        ch == c \div 256
        p0 == a[2] * cl
        p1 == a[2] * ch
        low == (p1 % 256) * 256 + p0
        high == (p1 \div 256) + (low \div TwoTo16)
                   + a[1] * cl + ((a[1] * ch) % 256) * 256
    IN  <<high % TwoTo16, low % TwoTo16>>

\* a / d for a divisor d of at most 15 bits
DivU32(a, d) ==
    LET rest == (a[1] % d) * TwoTo16 + a[2]
    IN  <<a[1] \div d, rest \div d>>

\* a + k for an int16_t k: k is converted to uint32_t (sign extended)
AddS16(a, k) ==
    LET b == IF k >= 0 THEN <<0, k>> ELSE <<TwoTo16 - 1, TwoTo16 + k>>
        low == a[2] + b[2]
    IN  <<(a[1] + b[1] + (low \div TwoTo16)) % TwoTo16, low % TwoTo16>>

(***************************************************************************)
(* read_voltages, lines 69-88: the battery and the external measurement    *)
(* and their calibration, one step per statement group. raw_bat and        *)
(* raw_ext are what read_adc returned, the coefficients and constants are  *)
(* the globals the host configures. x_bat and x_ext keep the values the    *)
(* calibration started from.                                               *)
(***************************************************************************)
RawBat == {0, 200, 322, 1023}       \* averaged band-gap readings
RawExt == {0, 600, 1023}            \* averaged readings of the external pin
BatCoefficients == {1000, 1500}     \* bat_v_coefficient
BatConstants == {-20, 0, 50}        \* bat_v_constant
ExtCoefficients == {0, 1000, 1500}  \* ext_v_coefficient
ExtConstants == {-20, 0, 50}        \* ext_v_constant

\* what a division by zero may leave in the quotient
UndefinedQuotient == {<<0, 0>>, <<TwoTo16 - 1, TwoTo16 - 1>>}

InitCal ==
    /\ Globals
    /\ adc = idle
    /\ bus = idle
    /\ \E rb \in RawBat, re \in RawExt, bc \in BatCoefficients,
          bk \in BatConstants, ec \in ExtCoefficients, ek \in ExtConstants :
          cal = [pc |-> "invert", raw_bat |-> rb, raw_ext |-> re,
                 bat_v_coefficient |-> bc, bat_v_constant |-> bk,
                 ext_v_coefficient |-> ec, ext_v_constant |-> ek,
                 temp_bat_voltage |-> <<0, 0>>, temp_ext_voltage |-> <<0, 0>>,
                 x_bat |-> <<0, 0>>, x_ext |-> <<0, 0>>,
                 division_by_zero |-> FALSE]

\* line 70: uint32_t temp_bat_voltage = 1126400L / read_adc(NUM_MEASUREMENTS);
calibrate_invert ==
    /\ cal.pc = "invert"
    /\ \E q \in IF cal.raw_bat = 0 THEN UndefinedQuotient
                ELSE {U32(1126400 \div cal.raw_bat)} :
          cal' = [cal EXCEPT !.temp_bat_voltage = q, !.x_bat = q,
                             !.division_by_zero = (cal.raw_bat = 0),
                             !.pc = "bat"]
    /\ UNCHANGED <<main, adc, bus>>

\* lines 73-74
calibrate_bat ==
    /\ cal.pc = "bat"
    /\ cal' = [cal EXCEPT
                 !.temp_bat_voltage =
                     AddS16(DivU32(MulU32(@, cal.bat_v_coefficient), 1000),
                            cal.bat_v_constant),
                 !.pc = "normalize"]
    /\ UNCHANGED <<main, adc, bus>>

\* lines 82-84
calibrate_normalize ==
    /\ cal.pc = "normalize"
    /\ LET x == DivU32(MulU32(cal.temp_bat_voltage, cal.raw_ext), 1024)
       IN  cal' = [cal EXCEPT !.temp_ext_voltage = x, !.x_ext = x, !.pc = "ext"]
    /\ UNCHANGED <<main, adc, bus>>

\* lines 87-88
calibrate_ext ==
    /\ cal.pc = "ext"
    /\ cal' = [cal EXCEPT
                 !.temp_ext_voltage =
                     AddS16(DivU32(MulU32(@, cal.ext_v_coefficient), 1000),
                            cal.ext_v_constant),
                 !.pc = "done"]
    /\ UNCHANGED <<main, adc, bus>>

NextCal ==
    \/ calibrate_invert
    \/ calibrate_bat
    \/ calibrate_normalize
    \/ calibrate_ext

SpecCal == InitCal /\ [][NextCal]_vars

\* the value of a uint32_t pair below 2^31
ValU32(a) == a[1] * TwoTo16 + a[2]

Affine(x, c, k) == (x * c) \div 1000 + k

IsAffine(out, x, c, k) ==
    /\ Affine(ValU32(x), c, k) >= 0
    /\ out = U32(Affine(ValU32(x), c, k))
    /\ (c = 1000 /\ k = 0) => out = x
    /\ (c = 0) => (k >= 0 /\ out = U32(k))

(***************************************************************************)
(* C17: the battery and the external calibration are affine in integer     *)
(* arithmetic: for every input x, coefficient c and constant k the         *)
(* calibrated output equals floor(x * c / 1000) + k; with c = 1000 and     *)
(* k = 0 it equals x, with c = 0 it equals k.                              *)
(***************************************************************************)
C17_Affine ==
    ~cal.division_by_zero =>
        /\ cal.pc \in {"normalize", "ext", "done"}
              => IsAffine(cal.temp_bat_voltage, cal.x_bat,
                          cal.bat_v_coefficient, cal.bat_v_constant)
        /\ cal.pc = "done"
              => IsAffine(cal.temp_ext_voltage, cal.x_ext,
                          cal.ext_v_coefficient, cal.ext_v_constant)

(***************************************************************************)
(* C20: the inversion of the band-gap reading is guarded against a zero    *)
(* reading: when the averaged reading returned by read_adc is 0 the cycle  *)
(* performs no division by zero.                                           *)
(***************************************************************************)
C20_NoDivisionByZero ==
    (cal.raw_bat = 0 /\ cal.pc # "invert") => ~cal.division_by_zero

(***************************************************************************)
(* The register interface: read(register_id) and write(register_id,        *)
(* value). Register gives the ids of the registers whose field is part of  *)
(* this model; the other registers of enum class Register follow the same  *)
(* pattern. A transaction is served in an interrupt, at any position of    *)
(* the main loop; its answer is left in bus.                               *)
(***************************************************************************)
Register ==
    [bat_voltage |-> 17, ext_voltage |-> 18, timeout |-> 33,
     should_shutdown |-> 35, temperature |-> 65]

UndefinedIds == {2}

RegisterIds == {Register[f] : f \in DOMAIN Register} \cup UndefinedIds

Writable == {Register.timeout}

Readable == {Register[f] : f \in DOMAIN Register}

MeasurementRegisters ==
    {Register.bat_voltage, Register.ext_voltage, Register.temperature}

WriteValues == {1, 60}

\* the field a register is mapped to
FieldValue(id) ==
    CASE id = Register.bat_voltage -> bat_voltage
      [] id = Register.ext_voltage -> ext_voltage
      [] id = Register.timeout -> timeout
      [] id = Register.should_shutdown -> should_shutdown
      [] id = Register.temperature -> temperature

Allowed(id, op) == IF op = "read" THEN id \in Readable ELSE id \in Writable

Transaction(id, op, v) ==
    IF Allowed(id, op)
       THEN /\ bus' = [status |-> "ok",
                       value |-> IF op = "read" THEN FieldValue(id) ELSE v]
            /\ timeout' = IF op = "write" /\ id = Register.timeout
                             THEN v ELSE timeout
            /\ reset_counter
            /\ UNCHANGED <<pc, state, should_shutdown, primed, bat_voltage,
                           ext_voltage,
                           temperature, temp_bat_voltage, temp_ext_voltage,
                           temp_temperature, branch, reg, ghosts, adc, cal>>
       ELSE /\ bus' = [status |-> "error", value |-> 0]
            /\ UNCHANGED <<main, adc, cal>>

RegisterTransaction ==
    \E id \in RegisterIds, op \in {"read", "write"}, v \in WriteValues :
        Transaction(id, op, v)

InitBus ==
    /\ pc = "measure"
    /\ state = InitState
    /\ should_shutdown = SL_NONE
    /\ primed = 0
    /\ seconds = 0
    /\ timeout = 60
    /\ bat_voltage = 0
    /\ ext_voltage = 0
    /\ temperature = 0
    /\ temp_bat_voltage = 0
    /\ temp_ext_voltage = 0
    /\ temp_temperature = 0
    /\ branch = "none"
    /\ reg = 0
    /\ cycles = 0
    /\ fresh = {}
    /\ bit_fresh = FALSE
    /\ seen = <<{}, FALSE>>
    /\ btn_cycle = FALSE
    /\ sweep = "boot"
    /\ start = 0
    /\ hist = <<>>
    /\ prev = "none"
    /\ adc = idle
    /\ cal = idle
    /\ bus = [status |-> "none", value |-> 0]

NextBus ==
    \/ MainLoop
    \/ RegisterTransaction

SpecBus == InitBus /\ [][NextBus]_vars

(***************************************************************************)
(* C15: a failing register transaction (a write to a read-only register,   *)
(* a read or write of an undefined register id) is answered with an error  *)
(* and changes no field of the shared state, seconds included; every       *)
(* successful transaction sets seconds to 0.                               *)
(***************************************************************************)
C15_Transactions ==
    [][\A id \in RegisterIds, op \in {"read", "write"}, v \in WriteValues :
          Transaction(id, op, v) =>
             IF id \in UndefinedIds \/ (op = "write" /\ id \notin Writable)
                THEN bus'.status = "error" /\ UNCHANGED main
                ELSE bus'.status = "ok" /\ seconds' = 0]_vars

\* A transaction has failed after seconds had advanced, and seconds still
\* holds its value.
C15_Witness ==
    /\ bus.status = "error"
    /\ seconds > 0
    /\ cycles > 0

NotYetPublished == cycles = 0 \/ (cycles = 1 /\ fresh = {})

(***************************************************************************)
(* C16: reading a measurement register (bat_voltage, ext_voltage,          *)
(* temperature) after boot and before the first measurement cycle has      *)
(* published returns the all-ones value of the register's two bytes,       *)
(* never zero.                                                             *)
(***************************************************************************)
C16_SentinelBeforeFirstCycle ==
    [][\A id \in MeasurementRegisters :
          (NotYetPublished /\ Transaction(id, "read", 1))
              => bus'.value = TwoTo16 - 1]_vars

(***************************************************************************)
(* C22: while the host is silent (seconds > timeout), after a first button *)
(* edge has set primed and cleared the bitmask, a second button edge takes *)
(* the handler's second branch and sets the button cause bit, so primed =  *)
(* 1 together with the button cause is reachable.                          *)
(***************************************************************************)
C22_SecondEdgeSetsButton ==
    [][(/\ ISR_PCINT0
        /\ seconds > timeout
        /\ primed = 1
        /\ should_shutdown # SL_INITIATED)
          => (primed' = 1 /\ HasBit(should_shutdown', SL_BUTTON))]_vars

\* The host is silent, primed is set, and an edge of the running cycle has
\* set the button bit after the priming edge.
C22_Witness ==
    /\ InCycle
    /\ seconds > timeout
    /\ primed = 1
    /\ btn_cycle
    /\ HasBit(should_shutdown, SL_BUTTON)

(***************************************************************************)
(* The calibration over the whole range of its inputs: readings down to    *)
(* 1, coefficients up to the largest uint16_t.                             *)
(***************************************************************************)
WideRawBat == {1, 17, 18, 200, 1023}
WideRawExt == {1, 600, 1023}
WideCoefficients == {1000, 3813, TwoTo16 - 1}

InitCalWide ==
    /\ Globals
    /\ adc = idle
    /\ bus = idle
    /\ \E rb \in WideRawBat, re \in WideRawExt, bc \in WideCoefficients,
          ec \in WideCoefficients :
          cal = [pc |-> "invert", raw_bat |-> rb, raw_ext |-> re,
                 bat_v_coefficient |-> bc, bat_v_constant |-> 0,
                 ext_v_coefficient |-> ec, ext_v_constant |-> 0,
                 temp_bat_voltage |-> <<0, 0>>, temp_ext_voltage |-> <<0, 0>>,
                 x_bat |-> <<0, 0>>, x_ext |-> <<0, 0>>,
                 division_by_zero |-> FALSE]

SpecCalWide == InitCalWide /\ [][NextCal]_vars

\* a / d for any 16 bit divisor d, by long division over the bytes of a
QuotU32(a, d) ==
    LET t1 == (a[1] % d) * 256 + (a[2] \div 256)
        t2 == (t1 % d) * 256 + (a[2] % 256)
    IN  <<a[1] \div d, (t1 \div d) * 256 + (t2 \div d)>>

\* a * c is 2^32 or more: dividing the wrapped product by c does not give a
Overflows(a, c) == c # 0 /\ QuotU32(MulU32(a, c), c) # a

(***************************************************************************)
(* C21: no calibration multiply overflows: for every averaged band-gap     *)
(* and external reading in 1..1023 and every 16 bit coefficient, each of   *)
(* the products supply_v * bat_coeff, raw * bat_v and ext_v * ext_coeff    *)
(* stays below 2^32.                                                       *)
(***************************************************************************)
C21_NoOverflow ==
    (cal.raw_bat \in 1..1023 /\ cal.raw_ext \in 1..1023) =>
        /\ cal.pc \in {"normalize", "ext", "done"}
              => ~Overflows(cal.x_bat, cal.bat_v_coefficient)
        /\ cal.pc \in {"ext", "done"}
              => ~Overflows(cal.temp_bat_voltage, cal.raw_ext)
        /\ cal.pc = "done"
              => ~Overflows(cal.x_ext, cal.ext_v_coefficient)
====
